---- MODULE Spec2Model ----
(***************************************************************************)
(* Temporal decision engine of the sign-language detection API             *)
(* (src/api.py, class SignLanguageDetector and the Flask control routes).  *)
(*                                                                         *)
(* Confidences and thresholds are Python floats; they are modelled in      *)
(* hundredths (0.7 is 70).  A float is a record [nan, v] so that NaN, which *)
(* compares false with everything, is a value the threshold can hold.      *)
(* Wall-clock time (time.time()) is modelled in whole seconds.             *)
(*                                                                         *)
(* Spec         one client, one request at a time                          *)
(* SpecStats    one client, with the read-only routes that report stats    *)
(* SpecTuning   one client, a short session with one more change           *)
(* SpecClients  several clients, one request at a time                     *)
(* SpecThreads  requests served by concurrent threads (threaded=True)      *)
(* SpecTopK     SignLanguageClassifier.predict and predict_top_k            *)
(* SpecCli      the command-line recognizer of src/sign_translator.py      *)
(* SpecBatch    one client, detect requests and then one batch-detect      *)
(* SpecCollect  the data collector of src/sign_translator.py               *)
(***************************************************************************)
EXTENDS Integers, Sequences, FiniteSets, TLC

VARIABLES
    prediction_history,    \* deque(maxlen=20) of <<sign, confidence>>
    recognized_text,       \* list of committed signs
    last_sign,             \* last committed sign or None
    last_sign_time,        \* time.time() of the last commit (or of construction)
    confidence_threshold,  \* float
    session_stats,         \* total_predictions, successful_predictions, signs_detected
    now,                   \* the wall clock, time.time()
    call,                  \* the operation that ran last
    result,                \* what the operation that ran last returned
    pushed,                \* history: every observation appended since creation / reset
    commit_times,          \* history: the commit times since creation / reset
    env,                   \* history: calls so far by kind, the last frame input
    proba,                 \* classifier: model.predict_proba([landmarks])[0]
    top_predictions,       \* classifier: what predict_top_k returned last
    client,                \* the client whose request was served last
    threads,               \* the request threads of the server: where each is in its handler
    collector              \* SignLanguageDataCollector.collect_samples: its list and locals

classifier_vars == <<proba, top_predictions>>

vars == <<prediction_history, recognized_text, last_sign, last_sign_time,
          confidence_threshold, session_stats, now, call, result,
          pushed, commit_times, env, proba, top_predictions, client, threads,
          collector>>

----------------------------------------------------------------------------
(* Program constants *)

WindowCapacity == 20       \* deque(maxlen=20)
MinHistory == 10           \* len(self.prediction_history) >= 10
MinFiltered == 5           \* len(recent) >= 5
RatioNum == 6              \* consistency_ratio > 0.6, as 6/10
RatioDen == 10
Cooldown == 2              \* current_time - self.last_sign_time > 2.0
BatchLimit == 10           \* if len(data['images']) > 10
InitialThreshold == 70     \* self.confidence_threshold = 0.7
ThresholdLow == 0          \* threshold < 0.0
ThresholdHigh == 100       \* threshold > 1.0

None == "None"

(* Bounds of the exploration *)

MaxFrames == 23            \* process_frame calls in one behaviour
MaxChanges == 1            \* events that disturb a steady stream of one observation:
                           \* a frame without an observation, a change of the
                           \* observation from one frame to the next, a
                           \* set-confidence-threshold request, a reset_session call
LastChangeFrame == 12      \* the events above happen within this many frames;
                           \* afterwards the stream is steady
MaxTime == 6               \* seconds the clock advances
MaxReads == 1              \* requests to the read-only routes in one behaviour
MaxBatchImages == 11       \* the most images in one batch-detect request
MaxSingleFrames == 2       \* detect requests before the batch-detect request
samples_per_sign == 12     \* the argument samples_per_sign of collect_samples
MaxCollected == 22         \* samples recorded in one run of collect_samples
MaxK == 4                  \* the largest k asked of predict_top_k
MaxThreadFrames == 10      \* process_frame calls in one behaviour of the threaded server
MaxThreadResets == 1       \* reset_session calls in one behaviour of the threaded server

Signs == {"HELLO", "YES"}

Confidences == {50, 75, 90}

\* what the classifier may return for a frame with a hand: <<sign, confidence>>;
\* one sign at every confidence, the other at the highest
Observations == {o \in Signs \X Confidences : o[1] = "HELLO" \/ o[2] = 90}

----------------------------------------------------------------------------
(* Floats *)

Num(v) == [nan |-> FALSE, v |-> v]
NaN == [nan |-> TRUE, v |-> 0]

\* a < b on floats: false as soon as one side is NaN
FloatLt(a, b) == ~a.nan /\ ~b.nan /\ a.v < b.v
FloatGt(a, b) == FloatLt(b, a)
FloatLe(a, b) == ~a.nan /\ ~b.nan /\ a.v <= b.v

----------------------------------------------------------------------------
(* Frames: what extract_landmarks and the classifier make of a frame *)

FrameInputs ==
    {[kind |-> "hand", sign |-> o[1], confidence |-> o[2]] : o \in Observations}
    \cup [kind : {"no_hand", "invalid", "predict_raises"}, sign : {None}, confidence : {0}]

NoInput == [kind |-> "none", sign |-> None, confidence |-> 0]

(* Request bodies of /api/set-confidence-threshold *)
ThresholdPayloads ==
    [kind : {"number"}, v : {-10, 0, 75, 100, 110}]
    \cup [kind : {"nan", "text", "missing"}, v : {0}]

----------------------------------------------------------------------------
(* Sequence helpers *)

Range(s) == {s[i] : i \in DOMAIN s}

Count(x, s) == Cardinality({i \in DOMAIN s : s[i] = x})

FirstIndex(x, s) == CHOOSE i \in DOMAIN s : s[i] = x /\ \A j \in 1..(i-1) : s[j] # x

DequeAppendLate(d, x) ==
    IF Len(d) > WindowCapacity THEN Append(Tail(d), x) ELSE Append(d, x)

\* deque.append on a deque with maxlen: the head is dropped when full
DequeAppend(d, x) ==
    IF Len(d) >= WindowCapacity THEN Append(Tail(d), x) ELSE Append(d, x)

\* ' '.join(list)
RECURSIVE Join(_)
Join(s) ==
    IF s = <<>> THEN ""
    ELSE IF Len(s) = 1 THEN s[1]
    ELSE s[1] \o " " \o Join(Tail(s))

----------------------------------------------------------------------------
(* The smoothing decision of process_frame *)

Unfiltered(e, threshold) == TRUE

\* recent = [(s, c) for s, c in self.prediction_history if c > self.confidence_threshold]
AboveThreshold(e, threshold) == FloatGt(Num(e[2]), threshold)

Recent(history, threshold) ==
    SelectSeq(history, LAMBDA e : AboveThreshold(e, threshold))

\* signs = [s for s, c in recent]
SignsOf(recent) == [i \in DOMAIN recent |-> recent[i][1]]

\* Counter(signs): the keys of the dict in insertion order, a label being
\* inserted when it is first seen in signs
RECURSIVE CounterKeys(_)
CounterKeys(signs) ==
    IF signs = <<>> THEN <<>>
    ELSE LET before == CounterKeys(SubSeq(signs, 1, Len(signs) - 1))
             s == signs[Len(signs)]
         IN  IF s \in Range(before) THEN before ELSE Append(before, s)

RECURSIVE MaxLast(_, _)
MaxLast(keys, signs) ==
    IF Len(keys) = 1 THEN keys[1]
    ELSE LET best == MaxLast(SubSeq(keys, 1, Len(keys) - 1), signs)
             k == keys[Len(keys)]
         IN  IF Count(k, signs) >= Count(best, signs) THEN k ELSE best

\* max(counter.items(), key=itemgetter(1)), which most_common(1) comes down to:
\* a later item replaces the best so far only when its count is greater
RECURSIVE MaxFirst(_, _)
MaxFirst(keys, signs) ==
    IF Len(keys) = 1 THEN keys[1]
    ELSE LET best == MaxFirst(SubSeq(keys, 1, Len(keys) - 1), signs)
             k == keys[Len(keys)]
         IN  IF Count(k, signs) > Count(best, signs) THEN k ELSE best

MostCommonLastSeen(signs) == MaxLast(CounterKeys(signs), signs)

\* Counter(signs).most_common(1)[0][0]
MostCommon(signs) == MaxFirst(CounterKeys(signs), signs)

HistoryLongerThanEnough(history) == Len(history) > MinHistory

\* len(self.prediction_history) >= 10
HistoryLongEnough(history) == Len(history) >= MinHistory

EnoughFilteredOffByOne(recent) == Len(recent) >= MinFiltered - 1

\* len(recent) >= 5
EnoughFiltered(recent) == Len(recent) >= MinFiltered

ConsistencyAtLeast(count, total) == count * RatioDen >= RatioNum * total

\* consistency_ratio > 0.6 with consistency_ratio = count / len(recent)
ConsistencyOK(count, total) == count * RatioDen > RatioNum * total

CooldownReached(current_time, last_time) == current_time - last_time >= Cooldown

\* current_time - self.last_sign_time > 2.0
CooldownElapsed(current_time, last_time) == current_time - last_time > Cooldown

AnySignIsNew(detected_sign, last) == TRUE

\* detected_sign != self.last_sign
IsNewSign(detected_sign, last) == detected_sign # last

ShouldCommitOnFullWindow(history, threshold, last, last_time, current_time) ==
    /\ Len(history) = WindowCapacity
    /\ LET recent == Recent(history, threshold)
           signs == SignsOf(recent)
           detected_sign == MostCommon(signs)
       IN  /\ EnoughFiltered(recent)
           /\ IsNewSign(detected_sign, last)
           /\ CooldownElapsed(current_time, last_time)
           /\ ConsistencyOK(Count(detected_sign, signs), Len(signs))

\* the whole nest of conditions, lines 263-283
ShouldCommit(history, threshold, last, last_time, current_time) ==
    /\ HistoryLongEnough(history)
    /\ LET recent == Recent(history, threshold)
           signs == SignsOf(recent)
           detected_sign == MostCommon(signs)
       IN  /\ EnoughFiltered(recent)
           /\ IsNewSign(detected_sign, last)
           /\ CooldownElapsed(current_time, last_time)
           /\ ConsistencyOK(Count(detected_sign, signs), Len(signs))

recognized_text_prepend(text, detected_sign) == <<detected_sign>> \o text

\* self.recognized_text.append(detected_sign)
recognized_text_append(text, detected_sign) == Append(text, detected_sign)

DetectedSign(history, threshold) == MostCommon(SignsOf(Recent(history, threshold)))

IsSuccessfulAtThreshold(confidence, threshold) == FloatLe(threshold, Num(confidence))

\* if confidence > self.confidence_threshold
IsSuccessful(confidence, threshold) == FloatGt(Num(confidence), threshold)

----------------------------------------------------------------------------
(* State after SignLanguageDetector.__init__ *)

FreshStats == [total_predictions |-> 0, successful_predictions |-> 0, signs_detected |-> {}]

FreshEnv == [frames |-> 0, switches |-> 0, misses |-> 0, sets |-> 0, resets |-> 0,
             reset_after_commit |-> FALSE, last_input |-> NoInput,
             stale_commit |-> FALSE, stale_count |-> FALSE, reads |-> 0,
             budget |-> MaxChanges, batched |-> FALSE, images |-> <<>>]

\* the events counted against the budget of changes so far
Changes == env.switches + env.misses + env.sets + env.resets

ChangeAllowed == Changes < env.budget /\ env.frames <= LastChangeFrame

\* the fields of the detector as SignLanguageDetector.__init__ leaves them
Detector ==
    /\ prediction_history = <<>>
    /\ recognized_text = <<>>
    /\ last_sign = None
    /\ now = 0
    /\ last_sign_time = 0
    /\ confidence_threshold = Num(InitialThreshold)
    /\ session_stats = FreshStats
    /\ call = "init"
    /\ result = [success |-> TRUE]
    /\ pushed = <<>>
    /\ commit_times = <<>>

Constructed == Detector /\ env = FreshEnv

\* predict_top_k was not called yet
NoPredictions == [k |-> 0, predictions |-> <<>>]

Clients == {"c1", "c2"}

Threads == {"t1", "t2"}

\* a request thread that is serving no request
IdleThread == [pc |-> "idle", frame |-> NoInput, epoch |-> 0, result |-> [success |-> TRUE],
               detected_sign |-> None, consistency_ratio |-> <<0, 0>>, current_time |-> 0]

\* SignLanguageDataCollector.__init__ and the first lines of collect_samples
FreshCollector ==
    [collected_data |-> <<>>, current_sign_idx |-> 0, samples_collected |-> 0,
     collecting |-> FALSE, running |-> TRUE]

\* one client, one request at a time, the classifier seen through its results
Init ==
    /\ Constructed
    /\ proba = <<>>
    /\ top_predictions = NoPredictions
    /\ client = "c1"
    /\ threads = [t \in Threads |-> IdleThread]
    /\ collector = FreshCollector

----------------------------------------------------------------------------
(* SignLanguageDetector.process_frame *)

BaseResultWithHand(stats) ==
    [hand_detected |-> TRUE, sign |-> None, confidence |-> 0, success |-> TRUE,
     session_stats |-> [total_predictions |-> stats.total_predictions,
                        successful_predictions |-> stats.successful_predictions,
                        unique_signs_detected |-> Cardinality(stats.signs_detected)]]

\* the result structure of lines 213-233, built after the total was counted
\* and before the prediction is looked at
BaseResult(stats) ==
    [hand_detected |-> FALSE, sign |-> None, confidence |-> 0, success |-> TRUE,
     session_stats |-> [total_predictions |-> stats.total_predictions,
                        successful_predictions |-> stats.successful_predictions,
                        unique_signs_detected |-> Cardinality(stats.signs_detected)]]

CommitResultWithoutText(observed, text, ratio) ==
    observed @@ [new_sign_added |-> TRUE, consistency_ratio |-> ratio]

\* lines 288-290: what a commit adds to the result
CommitResult(observed, text, ratio) ==
    observed @@ [new_sign_added |-> TRUE,
                 recognized_text |-> Join(text),
                 consistency_ratio |-> ratio]

PredictionErrorSwallowed(base) ==
    [base EXCEPT !.hand_detected = TRUE] @@ [prediction_error |-> "error"]

\* lines 238-239 and 294-297: the result when predict or predict_top_k raised
PredictionError(base) ==
    [base EXCEPT !.hand_detected = TRUE, !.success = FALSE] @@ [prediction_error |-> "error"]

UncountedStats(stats) == stats

CountedStats(stats) == [stats EXCEPT !.total_predictions = @ + 1]

AcceptedStats(stats, sign) ==
    [stats EXCEPT !.successful_predictions = @ + 1, !.signs_detected = @ \cup {sign}]

IsMiss(f) == f.kind # "hand"

IsSwitch(f) == f.kind = "hand" /\ env.last_input \notin {NoInput, f}

FrameBudget(f) ==
    /\ env.frames < MaxFrames
    /\ (IsMiss(f) \/ IsSwitch(f)) => ChangeAllowed

SpendFrame(f) ==
    [env EXCEPT !.frames = @ + 1,
                !.switches = IF IsSwitch(f) THEN @ + 1 ELSE @,
                !.misses = IF IsMiss(f) THEN @ + 1 ELSE @,
                !.last_input = IF IsMiss(f) THEN @ ELSE f]

process_frame(f) ==
    /\ FrameBudget(f)
    /\ env' = SpendFrame(f)
    /\ call' = "process_frame"
    /\ UNCHANGED <<now, confidence_threshold, classifier_vars, threads,
                   collector>>
    /\ LET counted == CountedStats(session_stats)
           base == BaseResult(counted)
       IN
       CASE f.kind = "invalid" ->
              /\ session_stats' = counted
              /\ result' = [hand_detected |-> FALSE, error |-> "Invalid frame", success |-> FALSE]
              /\ UNCHANGED <<prediction_history, recognized_text, last_sign,
                             last_sign_time, pushed, commit_times>>
         [] f.kind = "no_hand" ->
              /\ session_stats' = counted
              /\ result' = base
              /\ UNCHANGED <<prediction_history, recognized_text, last_sign,
                             last_sign_time, pushed, commit_times>>
         [] f.kind = "predict_raises" ->
              /\ session_stats' = counted
              /\ result' = PredictionError(base)
              /\ UNCHANGED <<prediction_history, recognized_text, last_sign,
                             last_sign_time, pushed, commit_times>>
         [] f.kind = "hand" ->
              LET observed == [base EXCEPT !.hand_detected = TRUE, !.sign = f.sign,
                                           !.confidence = f.confidence]
                  history == DequeAppend(prediction_history, <<f.sign, f.confidence>>)
              IN
              /\ session_stats' =
                     IF IsSuccessful(f.confidence, confidence_threshold)
                     THEN AcceptedStats(counted, f.sign) ELSE counted
              /\ prediction_history' = history
              /\ pushed' = Append(pushed, <<f.sign, f.confidence>>)
              /\ IF ShouldCommit(history, confidence_threshold, last_sign, last_sign_time, now)
                 THEN LET detected_sign == DetectedSign(history, confidence_threshold)
                          signs == SignsOf(Recent(history, confidence_threshold))
                      IN
                      /\ recognized_text' = recognized_text_append(recognized_text, detected_sign)
                      /\ last_sign' = detected_sign
                      /\ last_sign_time' = now
                      /\ commit_times' = Append(commit_times, now)
                      /\ result' = CommitResult(observed, recognized_text',
                                               <<Count(detected_sign, signs), Len(signs)>>)
                 ELSE /\ result' = observed
                      /\ UNCHANGED <<recognized_text, last_sign, last_sign_time, commit_times>>

----------------------------------------------------------------------------
(* SignLanguageDetector.reset_session, as called by /api/clear-recognized-text *)

reset_session_keeps_last_sign ==
    /\ ChangeAllowed
    /\ env' = [env EXCEPT !.resets = @ + 1,
                          !.reset_after_commit = @ \/ recognized_text # <<>>]
    /\ recognized_text' = <<>>
    /\ prediction_history' = <<>>
    /\ session_stats' = FreshStats
    /\ pushed' = <<>>
    /\ commit_times' = <<>>
    /\ call' = "reset_session"
    /\ result' = [success |-> TRUE]
    /\ UNCHANGED <<last_sign, last_sign_time, confidence_threshold, now,
                   classifier_vars, threads, collector>>

reset_session ==
    /\ ChangeAllowed
    /\ env' = [env EXCEPT !.resets = @ + 1,
                          !.reset_after_commit = @ \/ recognized_text # <<>>]
    /\ recognized_text' = <<>>
    /\ last_sign' = None
    /\ prediction_history' = <<>>
    /\ session_stats' = FreshStats
    /\ pushed' = <<>>
    /\ commit_times' = <<>>
    /\ call' = "reset_session"
    /\ result' = [success |-> TRUE,
                  previous_session_stats |->
                     [total_predictions |-> session_stats.total_predictions,
                      successful_predictions |-> session_stats.successful_predictions,
                      unique_signs_detected |-> Cardinality(session_stats.signs_detected)]]
    /\ UNCHANGED <<last_sign_time, confidence_threshold, now, classifier_vars, threads,
                   collector>>

----------------------------------------------------------------------------
(* POST /api/set-confidence-threshold *)

\* float(data['threshold']): raises for text, gives NaN for "nan"
ParsesAsFloat(p) == p.kind \in {"number", "nan"}

ParseFloat(p) == IF p.kind = "nan" THEN NaN ELSE Num(p.v)

AboveRangeOnly(threshold) == FloatGt(threshold, Num(ThresholdHigh))

\* if threshold < 0.0 or threshold > 1.0
OutOfRange(threshold) ==
    FloatLt(threshold, Num(ThresholdLow)) \/ FloatGt(threshold, Num(ThresholdHigh))

BadRequest == [status |-> 400, success |-> FALSE]

ThresholdUpdatedReadLate(p, old_threshold, threshold) ==
    [status |-> 200, success |-> TRUE, request |-> p,
     old_threshold |-> threshold, new_threshold |-> threshold]

\* lines 680-688: the answer to an accepted request
ThresholdUpdated(p, old_threshold, threshold) ==
    [status |-> 200, success |-> TRUE, request |-> p,
     old_threshold |-> old_threshold, new_threshold |-> threshold]

set_confidence_threshold(p) ==
    /\ ChangeAllowed
    /\ env' = [env EXCEPT !.sets = @ + 1]
    /\ call' = "set_confidence_threshold"
    /\ UNCHANGED <<prediction_history, recognized_text, last_sign, last_sign_time,
                   session_stats, now, pushed, commit_times, classifier_vars, threads,
                   collector>>
    /\ IF p.kind = "missing" \/ ~ParsesAsFloat(p) \/ OutOfRange(ParseFloat(p))
       THEN /\ result' = BadRequest @@ [request |-> p]
            /\ UNCHANGED confidence_threshold
       ELSE /\ confidence_threshold' = ParseFloat(p)
            /\ result' = ThresholdUpdated(p, confidence_threshold, ParseFloat(p))

----------------------------------------------------------------------------
(* GET /api/get-recognized-text and GET /api/detection-stats *)

Max(a, b) == IF a > b THEN a ELSE b

SuccessRateOfAccepted(stats) ==
    <<stats.successful_predictions, Max(1, stats.successful_predictions)>>

\* successful_predictions / max(1, total_predictions), as <<numerator, denominator>>
SuccessRate(stats) ==
    <<stats.successful_predictions, Max(1, stats.total_predictions)>>

ReadAllowed == env.reads < MaxReads /\ env.frames <= LastChangeFrame

get_recognized_text ==
    /\ ReadAllowed
    /\ env' = [env EXCEPT !.reads = @ + 1]
    /\ call' = "get_recognized_text"
    /\ result' =
          [recognized_text |-> Join(recognized_text),
           signs_array |-> recognized_text,
           signs_count |-> Len(recognized_text),
           last_sign |-> last_sign,
           last_sign_time |-> last_sign_time,
           unique_signs_in_session |-> session_stats.signs_detected,
           session_stats |->
              [total_predictions |-> session_stats.total_predictions,
               successful_predictions |-> session_stats.successful_predictions,
               success_rate |-> SuccessRate(session_stats)],
           success |-> TRUE]
    /\ UNCHANGED <<prediction_history, recognized_text, last_sign, last_sign_time,
                   confidence_threshold, session_stats, now, pushed, commit_times,
                   classifier_vars, client, threads, collector>>

detection_stats ==
    /\ ReadAllowed
    /\ env' = [env EXCEPT !.reads = @ + 1]
    /\ call' = "detection_stats"
    /\ result' =
          [session_stats |->
              [total_predictions |-> session_stats.total_predictions,
               successful_predictions |-> session_stats.successful_predictions,
               success_rate |-> SuccessRate(session_stats),
               unique_signs_detected |-> Cardinality(session_stats.signs_detected),
               signs_detected_list |-> session_stats.signs_detected],
           current_state |->
              [total_signs_recognized |-> Len(recognized_text),
               prediction_history_length |-> Len(prediction_history),
               last_detection_time |-> last_sign_time,
               current_session_text |-> Join(recognized_text),
               last_sign |-> last_sign],
           model_info |-> [confidence_threshold |-> confidence_threshold],
           success |-> TRUE]
    /\ UNCHANGED <<prediction_history, recognized_text, last_sign, last_sign_time,
                   confidence_threshold, session_stats, now, pushed, commit_times,
                   classifier_vars, client, threads, collector>>

----------------------------------------------------------------------------
(* The clock *)

\* Time is only read as current_time - self.last_sign_time > 2.0, so the clock
\* is followed until that difference exceeds the cooldown and no further.
Tick ==
    /\ now < MaxTime
    /\ ~CooldownElapsed(now, last_sign_time)
    /\ now' = now + 1
    /\ UNCHANGED <<prediction_history, recognized_text, last_sign, last_sign_time,
                   confidence_threshold, session_stats, call, result,
                   pushed, commit_times, env, classifier_vars, client, threads,
                   collector>>

ProcessFrame == \E f \in FrameInputs : process_frame(f)

SetThreshold == \E p \in ThresholdPayloads : set_confidence_threshold(p)

\* every request comes from the same client
Next ==
    \/ ProcessFrame /\ UNCHANGED client
    \/ reset_session /\ UNCHANGED client
    \/ SetThreshold /\ UNCHANGED client
    \/ Tick

Spec == Init /\ [][Next]_vars

\* The session with its read-only routes, at the initial threshold, over the
\* frames in which the stream of observations may change.
NextStats ==
    \/ env.frames < LastChangeFrame /\ ProcessFrame /\ UNCHANGED client
    \/ reset_session /\ UNCHANGED client
    \/ get_recognized_text
    \/ detection_stats
    \/ Tick

SpecStats == Init /\ [][NextStats]_vars

\* A session in which the threshold is tuned while observations arrive: one
\* change more than in Spec, over the frames in which changes may happen.
InitTuning ==
    /\ Detector
    /\ env = [FreshEnv EXCEPT !.budget = MaxChanges + 1]
    /\ proba = <<>>
    /\ top_predictions = NoPredictions
    /\ client = "c1"
    /\ threads = [t \in Threads |-> IdleThread]
    /\ collector = FreshCollector

NextTuning ==
    \/ env.frames < LastChangeFrame /\ ProcessFrame /\ UNCHANGED client
    \/ reset_session /\ UNCHANGED client
    \/ SetThreshold /\ UNCHANGED client
    \/ Tick

SpecTuning == InitTuning /\ [][NextTuning]_vars

\* Several clients: the routes act on the one global detector whoever calls.
NextClients ==
    \/ \E c \in Clients : client' = c /\ ProcessFrame
    \/ \E c \in Clients : client' = c /\ reset_session
    \/ \E c \in Clients : client' = c /\ SetThreshold
    \/ Tick

SpecClients == Init /\ [][NextClients]_vars

----------------------------------------------------------------------------
(* The server as app.run(threaded=True) runs it: every request is served by  *)
(* a thread of its own, all on the one detector, with no lock.  A thread is *)
(* switched between statements; the steps below are runs of statements of   *)
(* process_frame and reset_session, each run taken as one step.             *)

\* the frames of the threaded runs: one observation, and the frames without one
ThreadFrames ==
    {f \in FrameInputs : f.kind = "hand" => (f.sign = "HELLO" /\ f.confidence = 90)}

InProcessFrame(t) == threads[t].pc \in {"record", "decide", "commit"}

\* the call of thread t first read the detector before the reset that began last
StartedBeforeReset(t) == threads[t].epoch < env.resets

Return(t, r, name) ==
    /\ threads' = [threads EXCEPT ![t] = IdleThread]
    /\ result' = r
    /\ call' = name

\* lines 185-252: count the frame, look for a hand, build the result, classify
process_frame_count(t, f) ==
    /\ threads[t].pc = "idle"
    /\ env.frames < MaxThreadFrames
    /\ IsMiss(f) => env.misses < MaxChanges
    /\ env' = [env EXCEPT !.frames = @ + 1, !.misses = IF IsMiss(f) THEN @ + 1 ELSE @]
    /\ session_stats' = CountedStats(session_stats)
    /\ LET base == BaseResult(session_stats')
       IN
       CASE f.kind = "invalid" ->
              Return(t, [hand_detected |-> FALSE, error |-> "Invalid frame", success |-> FALSE],
                     "process_frame")
         [] f.kind = "no_hand" ->
              Return(t, base, "process_frame")
         [] f.kind = "predict_raises" ->
              Return(t, PredictionError(base), "process_frame")
         [] f.kind = "hand" ->
              /\ threads' = [threads EXCEPT ![t] =
                    [IdleThread EXCEPT
                        !.pc = "record", !.frame = f, !.epoch = env.resets,
                        !.result = [base EXCEPT !.hand_detected = TRUE, !.sign = f.sign,
                                                !.confidence = f.confidence]]]
              /\ UNCHANGED <<result, call>>
    /\ UNCHANGED <<prediction_history, recognized_text, last_sign, last_sign_time,
                   confidence_threshold, now, pushed, commit_times,
                   classifier_vars, client, collector>>

\* lines 254-259: count the accepted prediction, append to the window
process_frame_record(t) ==
    /\ threads[t].pc = "record"
    /\ LET f == threads[t].frame
           accepted == IsSuccessful(f.confidence, confidence_threshold)
       IN  /\ session_stats' =
                 IF accepted THEN AcceptedStats(session_stats, f.sign) ELSE session_stats
           /\ prediction_history' = DequeAppend(prediction_history, <<f.sign, f.confidence>>)
           /\ pushed' = Append(pushed, <<f.sign, f.confidence>>)
           /\ env' = [env EXCEPT !.stale_count = @ \/ (accepted /\ StartedBeforeReset(t))]
    /\ threads' = [threads EXCEPT ![t].pc = "decide"]
    /\ UNCHANGED <<recognized_text, last_sign, last_sign_time, confidence_threshold, now,
                   call, result, commit_times, classifier_vars, client,
                   collector>>

\* lines 263-283: the conditions of the commit, on the detector as it is now
process_frame_decide(t) ==
    /\ threads[t].pc = "decide"
    /\ IF ShouldCommit(prediction_history, confidence_threshold, last_sign, last_sign_time, now)
       THEN LET signs == SignsOf(Recent(prediction_history, confidence_threshold))
                detected_sign == MostCommon(signs)
            IN  /\ threads' = [threads EXCEPT
                      ![t].pc = "commit",
                      ![t].detected_sign = detected_sign,
                      ![t].consistency_ratio = <<Count(detected_sign, signs), Len(signs)>>,
                      ![t].current_time = now]
                /\ UNCHANGED <<result, call>>
       ELSE Return(t, threads[t].result, "process_frame")
    /\ UNCHANGED <<prediction_history, recognized_text, last_sign, last_sign_time,
                   confidence_threshold, session_stats, now, pushed, commit_times, env,
                   classifier_vars, client, collector>>

\* lines 285-290: the commit
process_frame_commit(t) ==
    /\ threads[t].pc = "commit"
    /\ recognized_text' = recognized_text_append(recognized_text, threads[t].detected_sign)
    /\ last_sign' = threads[t].detected_sign
    /\ last_sign_time' = threads[t].current_time
    /\ commit_times' = Append(commit_times, threads[t].current_time)
    /\ env' = [env EXCEPT !.stale_commit = @ \/ StartedBeforeReset(t)]
    /\ Return(t, CommitResult(threads[t].result, recognized_text',
                               threads[t].consistency_ratio),
              "process_frame")
    /\ UNCHANGED <<prediction_history, confidence_threshold, session_stats, now, pushed,
                   classifier_vars, client, collector>>

\* clear_recognized_text line 574 and reset_session lines 306-307
reset_session_text(t) ==
    /\ threads[t].pc = "idle"
    /\ env.resets < MaxThreadResets
    /\ env' = [env EXCEPT !.resets = @ + 1,
                          !.reset_after_commit = @ \/ recognized_text # <<>>,
                          !.stale_commit = FALSE]
    /\ recognized_text' = <<>>
    /\ last_sign' = None
    /\ commit_times' = <<>>
    /\ threads' = [threads EXCEPT ![t] =
          [IdleThread EXCEPT
              !.pc = "reset_stats",
              !.result = [success |-> TRUE,
                          previous_session_stats |->
                             [total_predictions |-> session_stats.total_predictions,
                              successful_predictions |-> session_stats.successful_predictions,
                              unique_signs_detected |-> Cardinality(session_stats.signs_detected)]]]]
    /\ UNCHANGED <<prediction_history, last_sign_time, confidence_threshold, session_stats,
                   now, call, result, pushed, classifier_vars, client,
                   collector>>

\* reset_session lines 308-314
reset_session_stats(t) ==
    /\ threads[t].pc = "reset_stats"
    /\ prediction_history' = <<>>
    /\ pushed' = <<>>
    /\ session_stats' = FreshStats
    /\ env' = [env EXCEPT !.stale_count = FALSE]
    /\ Return(t, threads[t].result, "reset_session")
    /\ UNCHANGED <<recognized_text, last_sign, last_sign_time, confidence_threshold, now,
                   commit_times, classifier_vars, client, collector>>

NextThreads ==
    \/ \E t \in Threads : \E f \in ThreadFrames : process_frame_count(t, f)
    \/ \E t \in Threads : process_frame_record(t)
    \/ \E t \in Threads : process_frame_decide(t)
    \/ \E t \in Threads : process_frame_commit(t)
    \/ \E t \in Threads : reset_session_text(t)
    \/ \E t \in Threads : reset_session_stats(t)
    \/ Tick

SpecThreads == Init /\ [][NextThreads]_vars

----------------------------------------------------------------------------
(* SignLanguageClassifier.predict and predict_top_k, on their own *)

\* idx_to_label; the code counts the indices from 0, the model from 1
Vocabulary == <<"HELLO", "THANKS", "YES">>

LabelIndex(sign) == CHOOSE i \in DOMAIN Vocabulary : Vocabulary[i] = sign

ProbaValues == {0, 10, 20, 30, 40, 50, 60, 70, 80, 90, 100}

RECURSIVE Sum(_)
Sum(s) == IF s = <<>> THEN 0 ELSE Head(s) + Sum(Tail(s))

\* what predict_proba may return: one probability per label, summing to 1
ProbaVectors == {p \in [DOMAIN Vocabulary -> ProbaValues] : Sum(p) = 100}

IndexOrders(n) == {o \in [1..n -> 1..n] : \A i, j \in 1..n : o[i] = o[j] => i = j}

\* np.argsort(p) with the default kind, which is not stable: the indices by
\* ascending value, equal values in an order numpy does not specify
ArgSort(p) ==
    {o \in IndexOrders(Len(p)) : \A i \in 1..(Len(p) - 1) : p[o[i]] <= p[o[i + 1]]}

\* a[::-1]
Reversed(a) == [i \in 1..Len(a) |-> a[Len(a) + 1 - i]]

\* a[:k] for k >= 0
Take(a, k) == SubSeq(a, 1, IF k < Len(a) THEN k ELSE Len(a))

\* np.argmax(p): the first index that holds the maximum
ArgMax(p) ==
    CHOOSE i \in DOMAIN p :
        /\ \A j \in DOMAIN p : p[j] <= p[i]
        /\ \A j \in DOMAIN p : j < i => p[j] < p[i]

\* SignLanguageClassifier.predict: the label and confidence process_frame
\* reports as result['sign'] and result['confidence']
predict ==
    /\ proba # <<>>
    /\ LET class_idx == ArgMax(proba)
       IN  result' = [sign |-> Vocabulary[class_idx], confidence |-> proba[class_idx]]
    /\ call' = "predict"
    /\ UNCHANGED <<prediction_history, recognized_text, last_sign, last_sign_time,
                   confidence_threshold, session_stats, now,
                   pushed, commit_times, env, classifier_vars, client, threads,
                   collector>>

predict_top_k(k) ==
    /\ proba # <<>>
    /\ \E order \in ArgSort(proba) :
          LET top_indices == Take(Reversed(order), k)
          IN  top_predictions' =
                [k |-> k,
                 predictions |-> [i \in DOMAIN top_indices |->
                                    [sign |-> Vocabulary[top_indices[i]],
                                     confidence |-> proba[top_indices[i]]]]]
    /\ call' = "predict_top_k"
    /\ UNCHANGED <<prediction_history, recognized_text, last_sign, last_sign_time,
                   confidence_threshold, session_stats, now, result,
                   pushed, commit_times, env, proba, client, threads,
                   collector>>

\* the classifier applied to one probability vector, for every such vector
InitTopK ==
    /\ Constructed
    /\ proba \in ProbaVectors
    /\ top_predictions = NoPredictions
    /\ client = "c1"
    /\ threads = [t \in Threads |-> IdleThread]
    /\ collector = FreshCollector

NextTopK ==
    \/ predict
    \/ \E k \in 1..MaxK : predict_top_k(k)

SpecTopK == InitTopK /\ [][NextTopK]_vars

----------------------------------------------------------------------------
(* SignLanguageRecognizer.run_recognition (src/sign_translator.py): the      *)
(* webcam loop of the command-line recognizer.  The recognizer has the      *)
(* fields prediction_history, recognized_text, last_sign, last_sign_time    *)
(* and confidence_threshold, constructed with the same values as the        *)
(* detector's; it keeps no session_stats and returns no result.             *)

CliMinHistory == 10        \* if len(self.prediction_history) >= 10
CliCooldownTenths == 18    \* current_time - self.last_sign_time > 1.8

\* thresholds = [0.5, 0.6, 0.7, 0.8, 0.9]
CliThresholds == <<50, 60, 70, 80, 90>>

\* cv2.waitKey(1): no key, 'c' (clear text), 't' (cycle the threshold)
CliKeys == {"none", "c", "t"}

\* a frame of the webcam: a classified hand or no hand
CliFrames == {f \in FrameInputs : f.kind \in {"hand", "no_hand"}}

\* lines 391-403: the conditions under which the loop appends the mode
CliShouldCommit(history, threshold, last, last_time, current_time) ==
    /\ Len(history) >= CliMinHistory
    /\ LET signs == SignsOf(Recent(history, threshold))
       IN  /\ signs # <<>>
           /\ MostCommon(signs) # last
           /\ 10 * (current_time - last_time) > CliCooldownTenths

\* lines 498-501: the threshold after the one held, the one after 0.7 if the
\* one held is not in the list
NextThreshold(threshold) ==
    LET held == {i \in DOMAIN CliThresholds : Num(CliThresholds[i]) = threshold}
        current_idx == IF held = {} THEN 3 ELSE CHOOSE i \in held : TRUE
    IN  Num(CliThresholds[(current_idx % Len(CliThresholds)) + 1])

KeyCost(key) == IF key = "none" THEN 0 ELSE 1

FrameCost(f) == IF IsMiss(f) \/ IsSwitch(f) THEN 1 ELSE 0

\* one iteration of the while loop: the frame (lines 361-407), then the key
\* (lines 483-502)
run_recognition(f, key) ==
    /\ env.frames < MaxFrames
    /\ FrameCost(f) + KeyCost(key) > 0 => env.frames <= LastChangeFrame
    /\ Changes + FrameCost(f) + KeyCost(key) <= env.budget
    /\ env' = [SpendFrame(f) EXCEPT !.resets = IF key = "c" THEN @ + 1 ELSE @,
                                    !.sets = IF key = "t" THEN @ + 1 ELSE @]
    /\ call' = "run_recognition"
    /\ LET history == IF f.kind = "hand"
                      THEN DequeAppend(prediction_history, <<f.sign, f.confidence>>)
                      ELSE prediction_history
           commits == /\ f.kind = "hand"
                      /\ CliShouldCommit(history, confidence_threshold, last_sign,
                                         last_sign_time, now)
           detected_sign == MostCommon(SignsOf(Recent(history, confidence_threshold)))
           text == IF commits THEN recognized_text_append(recognized_text, detected_sign)
                   ELSE recognized_text
       IN  /\ prediction_history' = history
           /\ pushed' = IF f.kind = "hand" THEN Append(pushed, <<f.sign, f.confidence>>)
                        ELSE pushed
           /\ last_sign' = IF commits THEN detected_sign ELSE last_sign
           /\ last_sign_time' = IF commits THEN now ELSE last_sign_time
           /\ commit_times' = IF commits THEN Append(commit_times, now) ELSE commit_times
           /\ recognized_text' = IF key = "c" THEN <<>> ELSE text
    /\ confidence_threshold' = IF key = "t" THEN NextThreshold(confidence_threshold)
                               ELSE confidence_threshold
    /\ UNCHANGED <<session_stats, now, result, classifier_vars, client, threads,
                   collector>>

NextCli ==
    \/ \E f \in CliFrames : \E key \in CliKeys : run_recognition(f, key)
    \/ Tick

SpecCli == Init /\ [][NextCli]_vars

----------------------------------------------------------------------------
(* POST /api/batch-detect *)

\* an entry of data['images']: an image that decodes to a frame, or one for
\* which cv2.imdecode returns None
Undecodable == [kind |-> "undecodable", sign |-> None, confidence |-> 0]

BatchImages ==
    {f \in FrameInputs : f.kind = "no_hand" \/ (f.kind = "hand" /\ f.confidence = 90)}
    \cup {Undecodable}

\* the request bodies: n times one image, the first or the last of them
\* possibly another one
Batches ==
    UNION {{[i \in 1..n |-> IF i = odd THEN b ELSE a] :
               a \in BatchImages, b \in BatchImages, odd \in {1, n}}
           : n \in 0..MaxBatchImages}

\* the fields of the detector, as process_frame reads and writes them
DetectorNow ==
    [prediction_history |-> prediction_history, recognized_text |-> recognized_text,
     last_sign |-> last_sign, last_sign_time |-> last_sign_time,
     session_stats |-> session_stats, pushed |-> pushed, commit_times |-> commit_times]

\* detector.process_frame(frame) on the detector d at time current_time: the
\* detector afterwards and the result returned
ProcessedFrame(d, f, threshold, current_time) ==
    LET counted == CountedStats(d.session_stats)
        base == BaseResult(counted)
    IN
    CASE f.kind = "invalid" ->
           [detector |-> [d EXCEPT !.session_stats = counted],
            result |-> [hand_detected |-> FALSE, error |-> "Invalid frame", success |-> FALSE]]
      [] f.kind = "no_hand" ->
           [detector |-> [d EXCEPT !.session_stats = counted], result |-> base]
      [] f.kind = "predict_raises" ->
           [detector |-> [d EXCEPT !.session_stats = counted],
            result |-> PredictionError(base)]
      [] f.kind = "hand" ->
           LET observed == [base EXCEPT !.hand_detected = TRUE, !.sign = f.sign,
                                        !.confidence = f.confidence]
               history == DequeAppend(d.prediction_history, <<f.sign, f.confidence>>)
               recorded == [d EXCEPT
                   !.session_stats = IF IsSuccessful(f.confidence, threshold)
                                     THEN AcceptedStats(counted, f.sign) ELSE counted,
                   !.prediction_history = history,
                   !.pushed = Append(@, <<f.sign, f.confidence>>)]
           IN
           IF ShouldCommit(history, threshold, d.last_sign, d.last_sign_time, current_time)
           THEN LET signs == SignsOf(Recent(history, threshold))
                    detected_sign == DetectedSign(history, threshold)
                    text == recognized_text_append(d.recognized_text, detected_sign)
                IN  [detector |-> [recorded EXCEPT
                                      !.recognized_text = text,
                                      !.last_sign = detected_sign,
                                      !.last_sign_time = current_time,
                                      !.commit_times = Append(@, current_time)],
                     result |-> CommitResult(observed, text,
                                             <<Count(detected_sign, signs), Len(signs)>>)]
           ELSE [detector |-> recorded, result |-> observed]

\* lines 824-850: the loop over data['images'] from image i on, with the
\* detector d and the results so far
RECURSIVE BatchLoop(_, _, _, _, _, _)
BatchLoop(d, results, images, i, threshold, current_time) ==
    IF i > Len(images) THEN [detector |-> d, results |-> results]
    ELSE IF images[i].kind = "undecodable"
         THEN BatchLoop(d,
                        Append(results, [image_index |-> i - 1,
                                         error |-> "Invalid image format",
                                         success |-> FALSE]),
                        images, i + 1, threshold, current_time)
         ELSE LET processed == ProcessedFrame(d, images[i], threshold, current_time)
              IN  BatchLoop(processed.detector,
                            Append(results, processed.result @@ [image_index |-> i - 1]),
                            images, i + 1, threshold, current_time)

HandDetected(r) == "hand_detected" \in DOMAIN r /\ r.hand_detected

\* lines 852-866: the summary of the results
BatchSummary(results, threshold) ==
    LET successful_detections == {i \in DOMAIN results : HandDetected(results[i])}
        high_confidence_detections ==
            {i \in successful_detections : FloatGt(Num(results[i].confidence), threshold)}
    IN  [total_images |-> Len(results),
         successful_detections |-> Cardinality(successful_detections),
         high_confidence_detections |-> Cardinality(high_confidence_detections),
         detection_rate |-> <<Cardinality(successful_detections), Len(results)>>,
         confidence_rate |-> <<Cardinality(high_confidence_detections),
                               Max(1, Cardinality(successful_detections))>>]

TooManyImagesAtLimit(images) == Len(images) >= BatchLimit

\* if len(data['images']) > 10
TooManyImages(images) == Len(images) > BatchLimit

batch_detect(images) ==
    /\ ~env.batched
    /\ env' = [env EXCEPT !.batched = TRUE, !.images = images]
    /\ call' = "batch_detect"
    /\ IF TooManyImages(images)
       THEN /\ result' = [error |-> "Maximum 10 images per batch", success |-> FALSE]
            /\ UNCHANGED <<prediction_history, recognized_text, last_sign, last_sign_time,
                           session_stats, pushed, commit_times>>
       ELSE LET done == BatchLoop(DetectorNow, <<>>, images, 1, confidence_threshold, now)
            IN  /\ prediction_history' = done.detector.prediction_history
                /\ recognized_text' = done.detector.recognized_text
                /\ last_sign' = done.detector.last_sign
                /\ last_sign_time' = done.detector.last_sign_time
                /\ session_stats' = done.detector.session_stats
                /\ pushed' = done.detector.pushed
                /\ commit_times' = done.detector.commit_times
                \* len(...) / len(data['images']) raises ZeroDivisionError for
                \* an empty array, which the handler answers with status 500
                /\ result' = IF images = <<>>
                             THEN [error |-> "Batch processing failed", success |-> FALSE]
                             ELSE [batch_results |-> done.results,
                                   batch_summary |-> BatchSummary(done.results,
                                                                  confidence_threshold),
                                   success |-> TRUE]
    /\ UNCHANGED <<confidence_threshold, now, classifier_vars, client, threads,
                   collector>>

BatchDetect == \E images \in Batches : batch_detect(images)

\* A session of detect requests followed by one batch-detect request
NextBatch ==
    \/ /\ env.frames < MaxSingleFrames
       /\ ~env.batched
       /\ ProcessFrame
       /\ UNCHANGED client
    \/ BatchDetect
    \/ Tick

SpecBatch == Init /\ [][NextBatch]_vars

----------------------------------------------------------------------------
(* SignLanguageDataCollector.collect_samples (src/sign_translator.py): the   *)
(* webcam loop that records landmark samples sign by sign                   *)

MinSamples == 10           \* if samples_collected >= 10

\* the argument sign_labels
sign_labels == <<"HELLO", "YES">>

\* cv2.waitKey(1): no key, space, 'n', 'p', 'q'
CollectorKeys == {"none", "space", "n", "p", "q"}

\* what the frame part of an iteration leaves: lines 111-122
SampleCollected(c, hand) ==
    IF c.collecting /\ hand /\ c.samples_collected < samples_per_sign
    THEN [c EXCEPT
            !.collected_data = Append(@, [sign |-> sign_labels[c.current_sign_idx + 1]]),
            !.samples_collected = @ + 1,
            !.collecting = c.samples_collected + 1 < samples_per_sign]
    ELSE c

\* key 'n', lines 150-156
NextSign(c) ==
    IF c.samples_collected >= MinSamples
    THEN [c EXCEPT !.current_sign_idx = @ + 1, !.samples_collected = 0,
                   !.collecting = FALSE]
    ELSE c

\* key 'p', lines 157-162
PreviousSign(c) ==
    IF c.current_sign_idx > 0
    THEN [c EXCEPT !.current_sign_idx = @ - 1, !.samples_collected = 0,
                   !.collecting = FALSE]
    ELSE c

\* what the key part of an iteration leaves: lines 138-162
KeyHandled(c, hand, key) ==
    CASE key = "q" -> [c EXCEPT !.running = FALSE]
      [] key = "space" -> IF hand THEN [c EXCEPT !.collecting = ~@] ELSE c
      [] key = "n" -> NextSign(c)
      [] key = "p" -> PreviousSign(c)
      [] OTHER -> c

\* one iteration of the while loop of line 63, for a frame with or without a
\* hand and the key read at its end; the loop ends on 'q' and past the last sign
collect_samples(hand, key) ==
    /\ collector.running
    /\ Len(collector.collected_data) < MaxCollected
    /\ LET handled == KeyHandled(SampleCollected(collector, hand), hand, key)
       IN  collector' = [handled EXCEPT
                            !.running = @ /\ handled.current_sign_idx < Len(sign_labels)]
    /\ call' = "collect_samples"
    /\ UNCHANGED <<prediction_history, recognized_text, last_sign, last_sign_time,
                   confidence_threshold, session_stats, now, result, pushed,
                   commit_times, env, classifier_vars, client, threads>>

NextCollect == \E hand \in BOOLEAN : \E key \in CollectorKeys : collect_samples(hand, key)

SpecCollect == Init /\ [][NextCollect]_vars

----------------------------------------------------------------------------
(* Steps and cycles, as the properties below name them *)

FrameStep == env'.frames = env.frames + 1
ResetStep == env'.resets = env.resets + 1
SetStep == env'.sets = env.sets + 1

\* a symbol was appended to recognized_text in this step
CommitStep == Len(recognized_text') = Len(recognized_text) + 1
Committed == recognized_text'[Len(recognized_text')]

\* the last call was process_frame on a frame with a hand that was classified
ObservedCycle ==
    /\ call = "process_frame"
    /\ result.hand_detected
    /\ result.success

CommittedThisCycle == ObservedCycle /\ "new_sign_added" \in DOMAIN result

FilteredSigns(history, threshold) == SignsOf(Recent(history, threshold))

\* the labels above the threshold in the window the step decided on
DecidedOn == FilteredSigns(prediction_history', confidence_threshold)

IsMode(s, signs) ==
    /\ s \in Range(signs)
    /\ \A t \in Range(signs) : Count(t, signs) <= Count(s, signs)

\* some label holds more than 60% of the entries above the threshold
HasConsensus(history, threshold) ==
    LET signs == FilteredSigns(history, threshold)
    IN  \E s \in Range(signs) : Count(s, signs) * RatioDen > RatioNum * Len(signs)

Min(a, b) == IF a < b THEN a ELSE b

----------------------------------------------------------------------------
(* C1: cooldown enforcement.  With no reset_session in between, any two      *)
(* consecutive commits are more than the cooldown (2.0 s) apart.            *)
C1_CooldownBetweenCommits ==
    \A i \in 1..(Len(commit_times) - 1) :
        commit_times[i + 1] - commit_times[i] > Cooldown

C1_Witness ==
    /\ Len(commit_times) >= 2
    /\ Len(recognized_text) >= 2
    /\ env.resets = 0

(* C2: no premature commit.  A process_frame cycle whose window holds fewer  *)
(* than 5 entries above the current threshold appends nothing and leaves    *)
(* last_sign and last_sign_time alone.                                      *)
C2_NoPrematureCommit ==
    [][(FrameStep /\ Len(Recent(prediction_history', confidence_threshold)) < MinFiltered)
         => UNCHANGED <<recognized_text, last_sign, last_sign_time>>]_vars

\* a cycle that only the filtered count kept from committing
C2_Witness ==
    /\ ObservedCycle
    /\ Len(prediction_history) >= MinHistory
    /\ Len(Recent(prediction_history, confidence_threshold)) = MinFiltered - 1
    /\ HasConsensus(prediction_history, confidence_threshold)
    /\ CooldownElapsed(now, last_sign_time)
    /\ recognized_text = <<>>

(* C3: no repeat commit.  The label a cycle commits differs from last_sign   *)
(* and from the last committed symbol, so a further observation of the      *)
(* label just committed commits nothing.                                    *)
C3_NoRepeatCommit ==
    [][CommitStep =>
         /\ Committed # last_sign
         /\ recognized_text # <<>> => Committed # recognized_text[Len(recognized_text)]]_vars

\* right after the commit of L, L is observed again at a higher confidence
C3_Witness ==
    /\ ObservedCycle
    /\ ~CommittedThisCycle
    /\ recognized_text = <<result.sign>>
    /\ last_sign = result.sign
    /\ now = last_sign_time
    /\ Len(pushed) >= 2
    /\ pushed[Len(pushed) - 1][2] < result.confidence

(* C4: a commit happens only if the mode of the filtered window differs      *)
(* from last_sign, more than the cooldown has passed since last_sign_time   *)
(* and the mode holds strictly more than 0.6 of the filtered entries.       *)
C4_CommitOnlyIf ==
    [][CommitStep =>
         /\ IsMode(Committed, DecidedOn)
         /\ Committed # last_sign
         /\ now - last_sign_time > Cooldown
         /\ Count(Committed, DecidedOn) * RatioDen > RatioNum * Len(DecidedOn)]_vars

\* a ratio of exactly 0.6 with the other two conditions met: no commit
C4_Witness ==
    /\ ObservedCycle
    /\ ~CommittedThisCycle
    /\ Len(prediction_history) >= MinHistory
    /\ LET signs == FilteredSigns(prediction_history, confidence_threshold)
       IN  /\ Len(signs) >= MinFiltered
           /\ \E s \in Range(signs) :
                /\ IsMode(s, signs)
                /\ s # last_sign
                /\ Count(s, signs) * RatioDen = RatioNum * Len(signs)
    /\ now - last_sign_time > Cooldown

\* a frame with a hand was classified and pushed in this step
ObservationStep == FrameStep /\ Len(pushed') = Len(pushed) + 1

\* the label that holds more than 60% of the entries above the threshold
ConsensusSign(history, threshold) ==
    LET signs == FilteredSigns(history, threshold)
    IN  CHOOSE s \in Range(signs) : Count(s, signs) * RatioDen > RatioNum * Len(signs)

C6_CommitRightAfterReset ==
    [][(/\ ObservationStep
        /\ env.reset_after_commit
        /\ commit_times = <<>>
        /\ Len(prediction_history') >= MinHistory
        /\ Len(Recent(prediction_history', confidence_threshold)) >= MinFiltered
        /\ HasConsensus(prediction_history', confidence_threshold))
         => CommitStep]_vars

(* C7: after reset_session the recognized text is the empty string,          *)
(* recognized_text and the window are empty, both counters are 0,           *)
(* signs_detected is empty and last_sign is None.                           *)
C7_ResetPostcondition ==
    call = "reset_session" =>
        /\ Join(recognized_text) = ""
        /\ recognized_text = <<>>
        /\ prediction_history = <<>>
        /\ session_stats.total_predictions = 0
        /\ session_stats.successful_predictions = 0
        /\ session_stats.signs_detected = {}
        /\ last_sign = None

\* a reset of a session that had committed and counted
C7_Witness ==
    /\ call = "reset_session"
    /\ env.reset_after_commit
    /\ result.previous_session_stats.successful_predictions > 0
    /\ result.previous_session_stats.unique_signs_detected > 0

(* C8: after N pushes since creation or the last reset the window holds      *)
(* min(N, 20) entries, and they are the last min(N, 20) pushed, in order.   *)
C8_WindowBound ==
    /\ Len(prediction_history) = Min(Len(pushed), WindowCapacity)
    /\ \A i \in 1..Len(prediction_history) :
          prediction_history[i] = pushed[Len(pushed) - Len(prediction_history) + i]

\* more than 20 pushes, the evicted one differing from the oldest retained
C8_Witness ==
    /\ Len(pushed) > WindowCapacity
    /\ pushed[1] # prediction_history[1]
    /\ prediction_history[1] = pushed[Len(pushed) - WindowCapacity + 1]

(* C9: with no reset, total_predictions and successful_predictions never     *)
(* decrease, and successful_predictions <= total_predictions in every state. *)
C9_StatsMonotone ==
    /\ [](session_stats.successful_predictions <= session_stats.total_predictions)
    /\ [][~ResetStep =>
            /\ session_stats'.total_predictions >= session_stats.total_predictions
            /\ session_stats'.successful_predictions
                  >= session_stats.successful_predictions]_vars

\* counted frames of which some but not all were above the threshold
C9_Witness ==
    /\ env.resets = 0
    /\ session_stats.successful_predictions > 0
    /\ session_stats.successful_predictions < session_stats.total_predictions

(* C10: a set-confidence-threshold request with a number below 0 or above 1  *)
(* fails and leaves confidence_threshold as it was; one with a number in    *)
(* [0,1] succeeds and sets it; no other call changes it.                    *)
C10_ThresholdValidation ==
    [][/\ SetStep /\ result'.request.kind = "number" =>
            IF result'.request.v < ThresholdLow \/ result'.request.v > ThresholdHigh
            THEN /\ result'.status = 400
                 /\ ~result'.success
                 /\ confidence_threshold' = confidence_threshold
            ELSE /\ result'.status = 200
                 /\ result'.success
                 /\ confidence_threshold' = Num(result'.request.v)
       /\ ~SetStep => confidence_threshold' = confidence_threshold]_vars

\* a rejected request: 1.1, the threshold still the initial 0.7
C10_Witness ==
    /\ call = "set_confidence_threshold"
    /\ result.request.kind = "number"
    /\ result.request.v > ThresholdHigh
    /\ result.status = 400
    /\ confidence_threshold = Num(InitialThreshold)

(* C11: threshold range invariant.  Whatever set-confidence-threshold       *)
(* requests were made, confidence_threshold is a number within [0,1]; a     *)
(* payload that is not within [0,1], NaN included, is rejected.             *)
C11_ThresholdInRange ==
    /\ ~confidence_threshold.nan
    /\ confidence_threshold.v >= ThresholdLow
    /\ confidence_threshold.v <= ThresholdHigh

(* C12: deterministic tie-break.  When several labels share the highest      *)
(* count among the window entries above the threshold, the mode chosen for  *)
(* the commit decision is the one whose first occurrence in the filtered    *)
(* sequence is earliest.                                                    *)
C12_FirstSeenWins ==
    LET signs == FilteredSigns(prediction_history, confidence_threshold)
    IN  signs # <<>> =>
          /\ IsMode(MostCommon(signs), signs)
          /\ \A t \in Range(signs) :
                IsMode(t, signs) => FirstIndex(MostCommon(signs), signs) <= FirstIndex(t, signs)

\* the decision reached the mode with two labels tied, "YES" seen first
C12_Witness ==
    /\ ObservedCycle
    /\ Len(prediction_history) >= MinHistory
    /\ LET signs == FilteredSigns(prediction_history, confidence_threshold)
       IN  /\ Len(signs) >= MinFiltered
           /\ signs[1] = "YES"
           /\ Count("YES", signs) = Count("HELLO", signs)
           /\ MostCommon(signs) = "YES"

(* C13: top-k ordering.  For every probability vector and every k,          *)
(* predict_top_k returns the k highest-scoring labels (all of them when k   *)
(* exceeds the vocabulary) by descending confidence, labels of equal        *)
(* confidence in ascending vocabulary-index order.                          *)
C13_TopKOrdering ==
    call = "predict_top_k" =>
        LET r == top_predictions.predictions
            returned == {r[i].sign : i \in DOMAIN r}
        IN  /\ Len(r) = Min(top_predictions.k, Len(Vocabulary))
            /\ \A i \in DOMAIN r : r[i].confidence = proba[LabelIndex(r[i].sign)]
            /\ \A i \in DOMAIN Vocabulary :
                  Vocabulary[i] \notin returned =>
                      \A j \in DOMAIN r : proba[i] <= r[j].confidence
            /\ \A i, j \in DOMAIN r :
                  i < j =>
                      \/ r[i].confidence > r[j].confidence
                      \/ /\ r[i].confidence = r[j].confidence
                         /\ LabelIndex(r[i].sign) < LabelIndex(r[j].sign)

\* a request (an observation, a reset or a threshold change) was served
RequestStep == FrameStep \/ ResetStep \/ SetStep

(* C14: no cross-session interference.  The recognized text, the window,     *)
(* the stats and what decides the commits of one client's session are not   *)
(* changed by an observation, a reset or a threshold change that a          *)
(* different client issues: when client c was served last and the request   *)
(* served now comes from another client, all of these stay as c left them.  *)
C14_NoCrossSessionInterference ==
    [][\A c \in Clients :
          (call # "init" /\ client = c /\ RequestStep /\ client' # c)
             => UNCHANGED <<recognized_text, prediction_history, session_stats,
                            last_sign, last_sign_time, confidence_threshold>>]_vars

(* C15: sequential evaluation per session.  No two process_frame            *)
(* executions on the detector overlap: in no reachable state are two        *)
(* request handlers both between the start and the end of process_frame.    *)
C15_SequentialEvaluation ==
    Cardinality({t \in Threads : InProcessFrame(t)}) <= 1

\* no request is being served
Quiescent == \A t \in Threads : threads[t].pc = "idle"

(* C16: atomic reset.  Every process_frame execution works entirely on the   *)
(* state before a reset or entirely on the state after it: once the reset   *)
(* and the process_frame calls in flight have finished, the state holds no  *)
(* commit and no counter increment made by a call that had started on the   *)
(* state before the reset.                                                  *)
C16_AtomicReset ==
    (Quiescent /\ env.resets > 0) => (~env.stale_commit /\ ~env.stale_count)

(* C17: append-only sequence.  In every step recognized_text is unchanged,  *)
(* or is its previous value with exactly one symbol appended at the tail,   *)
(* or becomes empty through a reset; committed symbols are never            *)
(* reordered, replaced or removed one by one.                               *)
C17_AppendOnly ==
    [][\/ recognized_text' = recognized_text
       \/ /\ FrameStep
          /\ \E s \in Signs : recognized_text' = Append(recognized_text, s)
       \/ /\ ResetStep
          /\ recognized_text' = <<>>]_vars

\* two symbols appended one after the other, the second differing from the first
C17_Witness ==
    /\ CommittedThisCycle
    /\ Len(recognized_text) = 2
    /\ recognized_text[1] # recognized_text[2]
    /\ result.recognized_text = Join(recognized_text)

NoHandStep == process_frame([kind |-> "no_hand", sign |-> None, confidence |-> 0])

(* C19: no-detection cycle.  process_frame on a frame without a hand         *)
(* returns hand_detected = false and no error, and leaves recognized_text,  *)
(* the window, last_sign, last_sign_time, successful_predictions and        *)
(* signs_detected unchanged; only total_predictions advances.               *)
C19_NoDetectionCycle ==
    [][NoHandStep =>
         /\ ~result'.hand_detected
         /\ result'.success
         /\ DOMAIN result' \cap {"error", "prediction_error"} = {}
         /\ UNCHANGED <<recognized_text, prediction_history, last_sign, last_sign_time>>
         /\ session_stats'.successful_predictions = session_stats.successful_predictions
         /\ session_stats'.signs_detected = session_stats.signs_detected
         /\ session_stats'.total_predictions = session_stats.total_predictions + 1]_vars

\* a frame without a hand in a session that has a text, a window and counts
C19_Witness ==
    /\ call = "process_frame"
    /\ ~result.hand_detected
    /\ result.success
    /\ recognized_text # <<>>
    /\ Len(prediction_history) >= MinHistory
    /\ session_stats.successful_predictions > 0
    /\ session_stats.total_predictions = Len(pushed) + 1

\* every observation in the window is at or below the threshold
AllAtOrBelow(history, threshold) ==
    \A i \in DOMAIN history : FloatLe(Num(history[i][2]), threshold)

(* C20: Scenario C in general.  A cycle whose window holds only observations *)
(* with confidence at or below the current threshold commits nothing,       *)
(* however many observations were made and however much time has passed;    *)
(* its result reports hand_detected = true and the recognized text stays    *)
(* as it was, empty if no symbol was committed before.                      *)
C20_NothingAboveThreshold ==
    [][(ObservationStep /\ AllAtOrBelow(prediction_history', confidence_threshold))
         => /\ result'.hand_detected
            /\ result'.success
            /\ "new_sign_added" \notin DOMAIN result'
            /\ UNCHANGED <<recognized_text, last_sign, last_sign_time>>
            /\ recognized_text = <<>> => recognized_text' = <<>>]_vars

\* a full window of observations below the threshold, the cooldown long over
C20_Witness ==
    /\ ObservedCycle
    /\ Len(pushed) > WindowCapacity
    /\ AllAtOrBelow(prediction_history, confidence_threshold)
    /\ \A i \in DOMAIN pushed : pushed[i][2] < InitialThreshold
    /\ CooldownElapsed(now, last_sign_time)
    /\ recognized_text = <<>>
    /\ session_stats.successful_predictions = 0

(* C21: a successful set-confidence-threshold changes only                   *)
(* confidence_threshold: the window, recognized_text, last_sign,            *)
(* last_sign_time and the session_stats counters are the same before and    *)
(* after, and the reported old_threshold is the value held right before.    *)
C21_SetThresholdFrame ==
    [][(SetStep /\ result'.success)
         => /\ UNCHANGED <<prediction_history, recognized_text, last_sign,
                           last_sign_time, session_stats>>
            /\ result'.old_threshold = confidence_threshold
            /\ result'.new_threshold = confidence_threshold']_vars

\* an accepted change of the threshold in a session with a text and a window
C21_Witness ==
    /\ call = "set_confidence_threshold"
    /\ result.success
    /\ result.old_threshold # result.new_threshold
    /\ confidence_threshold = result.new_threshold
    /\ recognized_text # <<>>
    /\ prediction_history # <<>>
    /\ session_stats.successful_predictions > 0

\* a read-only route answered last
StatsReported == call \in {"get_recognized_text", "detection_stats"}

(* C22: success rate.  The success_rate reported by get_recognized_text and *)
(* detection_stats equals successful_predictions / total_predictions when   *)
(* total_predictions > 0, equals 0 when total_predictions = 0, and never    *)
(* exceeds 1.                                                               *)
C22_SuccessRate ==
    StatsReported =>
        LET rate == result.session_stats.success_rate
        IN  /\ result.session_stats.total_predictions = session_stats.total_predictions
            /\ result.session_stats.successful_predictions = session_stats.successful_predictions
            /\ session_stats.total_predictions > 0 =>
                  rate[1] * session_stats.total_predictions
                     = session_stats.successful_predictions * rate[2]
            /\ session_stats.total_predictions = 0 => rate[1] = 0
            /\ rate[2] > 0
            /\ rate[1] <= rate[2]

\* a rate strictly between 0 and 1 was reported
C22_Witness ==
    /\ call = "detection_stats"
    /\ result.session_stats.successful_predictions > 0
    /\ result.session_stats.successful_predictions < result.session_stats.total_predictions
    /\ result.session_stats.success_rate
          = <<session_stats.successful_predictions, session_stats.total_predictions>>

(* C23: observation accounting.  Every process_frame call increases         *)
(* total_predictions by exactly 1; successful_predictions increases by      *)
(* exactly 1 and the label is added to signs_detected if and only if a hand *)
(* was detected, classification succeeded and the confidence is strictly    *)
(* greater than the threshold in force at that call; otherwise              *)
(* successful_predictions and signs_detected are unchanged.                 *)
C23_ObservationAccounting ==
    [][\A f \in FrameInputs : process_frame(f) =>
         /\ session_stats'.total_predictions = session_stats.total_predictions + 1
         /\ IF /\ f.kind = "hand"
               /\ ~confidence_threshold.nan
               /\ f.confidence > confidence_threshold.v
            THEN /\ session_stats'.successful_predictions
                       = session_stats.successful_predictions + 1
                 /\ session_stats'.signs_detected
                       = session_stats.signs_detected \cup {f.sign}
            ELSE /\ session_stats'.successful_predictions
                       = session_stats.successful_predictions
                 /\ session_stats'.signs_detected = session_stats.signs_detected]_vars

\* a classified observation at exactly the threshold, counted but not accepted
C23_Witness ==
    /\ call = "process_frame"
    /\ result.hand_detected
    /\ result.success
    /\ confidence_threshold = Num(result.confidence)
    /\ session_stats.total_predictions = Len(pushed)
    /\ Len(pushed) >= MinHistory
    /\ session_stats.successful_predictions = 0
    /\ session_stats.signs_detected = {}

(* C24: accepted <= total under interleaving.  When process_frame and       *)
(* reset_session run in different request threads on the shared detector,   *)
(* successful_predictions <= total_predictions holds in every reachable     *)
(* state.                                                                   *)
C24_AcceptedAtMostTotal ==
    session_stats.successful_predictions <= session_stats.total_predictions

\* process_frame served a frame with a hand on which the classifier raised
PredictRaisesStep ==
    process_frame([kind |-> "predict_raises", sign |-> None, confidence |-> 0])

(* C25: classifier failure is contained.  If the classifier raises during   *)
(* predict or predict_top_k inside process_frame, the call returns a result *)
(* with success = false and a prediction_error instead of raising, and the  *)
(* window, recognized_text, last_sign, last_sign_time,                      *)
(* successful_predictions and signs_detected are unchanged by that call.    *)
C25_ClassifierFailureContained ==
    [][PredictRaisesStep =>
         /\ call' = "process_frame"
         /\ ~result'.success
         /\ "prediction_error" \in DOMAIN result'
         /\ UNCHANGED <<prediction_history, recognized_text, last_sign, last_sign_time>>
         /\ session_stats'.successful_predictions = session_stats.successful_predictions
         /\ session_stats'.signs_detected = session_stats.signs_detected]_vars

\* the classifier raised in a session that has a text, a window and counts
C25_Witness ==
    /\ call = "process_frame"
    /\ "prediction_error" \in DOMAIN result
    /\ ~result.success
    /\ result.hand_detected
    /\ recognized_text # <<>>
    /\ Len(prediction_history) >= MinHistory
    /\ session_stats.successful_predictions > 0
    /\ session_stats.total_predictions = Len(pushed) + 1

\* the conditions of the commit on the window the step decided on: at least 5
\* entries above the threshold, their mode different from last_sign, more
\* than the cooldown since last_sign_time, the mode's share above 60%
CommitConditions ==
    /\ now - last_sign_time > Cooldown
    /\ LET signs == DecidedOn
       IN  /\ Len(signs) >= MinFiltered
           /\ \E s \in Signs \ {last_sign} :
                 /\ Count(s, signs) * RatioDen > RatioNum * Len(signs)
                 /\ IsMode(s, signs)

\* the window the step decided on is full of one label, all above the threshold
FullWindowOf(s) ==
    /\ Len(prediction_history') = WindowCapacity
    /\ \A i \in DOMAIN prediction_history' :
          /\ prediction_history'[i][1] = s
          /\ FloatGt(Num(prediction_history'[i][2]), confidence_threshold)

CliCommitStep == call' = "run_recognition" /\ Len(commit_times') = Len(commit_times) + 1

(* C27: the command-line recognizer obeys the same commit rule: it commits  *)
(* the mode label only when at least 5 window entries exceed the confidence *)
(* threshold and the mode's share of those entries is strictly greater than *)
(* 0.6.                                                                     *)
C27_CliCommitRule ==
    [][CliCommitStep =>
         LET signs == FilteredSigns(prediction_history', confidence_threshold)
         IN  /\ Len(signs) >= MinFiltered
             /\ Count(last_sign', signs) * RatioDen > RatioNum * Len(signs)]_vars

(* C28: committed symbols are accounted symbols.  In every state reachable  *)
(* by any sequence of process_frame, set-confidence-threshold and           *)
(* reset_session calls, every symbol in recognized_text is a member of      *)
(* session_stats.signs_detected, and a non-empty recognized_text implies    *)
(* successful_predictions > 0.                                              *)
C28_CommittedAreAccounted ==
    /\ Range(recognized_text) \subseteq session_stats.signs_detected
    /\ recognized_text # <<>> => session_stats.successful_predictions > 0

(* C29: last-commit memory matches the sequence.  In every state reachable  *)
(* by sequential process_frame and reset_session calls, last_sign is None   *)
(* exactly when recognized_text is empty and otherwise equals the last      *)
(* element of recognized_text; consequently recognized_text never contains  *)
(* two equal adjacent symbols.                                              *)
C29_LastSignMatchesText ==
    /\ last_sign = None <=> recognized_text = <<>>
    /\ recognized_text # <<>> => last_sign = recognized_text[Len(recognized_text)]
    /\ \A i \in 1..(Len(recognized_text) - 1) : recognized_text[i] # recognized_text[i + 1]

\* two commits, the second of another sign, remembered as the last one
C29_Witness ==
    /\ CommittedThisCycle
    /\ Len(recognized_text) = 2
    /\ recognized_text[1] # recognized_text[2]
    /\ last_sign = recognized_text[2]

(* C30: snapshot stats are current.  The session_stats embedded in the      *)
(* result of a process_frame call (total_predictions,                       *)
(* successful_predictions, unique_signs_detected) equal the detector's      *)
(* session_stats at the moment the call returns: they include the effect of *)
(* the observation just processed.                                          *)
C30_SnapshotStatsCurrent ==
    (call = "process_frame" /\ "session_stats" \in DOMAIN result) =>
        /\ result.session_stats.total_predictions = session_stats.total_predictions
        /\ result.session_stats.successful_predictions = session_stats.successful_predictions
        /\ result.session_stats.unique_signs_detected
              = Cardinality(session_stats.signs_detected)

(* C31: the main prediction agrees with the ranking.  For every confidence  *)
(* vector, tied maxima included, the label returned by predict equals the   *)
(* label of the first entry returned by predict_top_k on the same input.    *)
C31_PredictHeadsRanking ==
    ("sign" \in DOMAIN result /\ top_predictions.predictions # <<>>)
        => result.sign = top_predictions.predictions[1].sign

\* an iteration of the command-line loop whose frame was classified, with the
\* text empty before it, the cooldown over and a mode among the window
\* entries above the threshold
CliConsensusOnEmptyText ==
    /\ call' = "run_recognition"
    /\ Len(pushed') = Len(pushed) + 1
    /\ recognized_text = <<>>
    /\ 10 * (now - last_sign_time) > CliCooldownTenths
    /\ Len(prediction_history') >= CliMinHistory
    /\ FilteredSigns(prediction_history', confidence_threshold) # <<>>

(* C32: clear in the command-line recognizer restores commit eligibility.   *)
(* After the 'c' key has emptied recognized_text, whichever label next      *)
(* reaches consensus after the cooldown is committed, the label committed   *)
(* last before the clear included: while recognized_text is empty no label  *)
(* is blocked by the no-repeat rule.                                        *)
C32_ClearRestoresEligibility ==
    [][CliConsensusOnEmptyText
         => /\ CliCommitStep
            /\ last_sign' = MostCommon(FilteredSigns(prediction_history',
                                                     confidence_threshold))]_vars

\* a batch-detect request was served in this step
BatchStep == ~env.batched /\ env'.batched

\* the images of the request up to image i that decode to a frame
DecodedUpTo(images, i) == {j \in 1..i : images[j].kind # "undecodable"}

\* the observations the classifier makes of the images, in array order
RECURSIVE ObservationsOf(_)
ObservationsOf(images) ==
    IF images = <<>> THEN <<>>
    ELSE IF Head(images).kind = "hand"
         THEN <<<<Head(images).sign, Head(images).confidence>>>> \o ObservationsOf(Tail(images))
         ELSE ObservationsOf(Tail(images))

(* C33: the batch limit leaves state untouched.  A batch-detect request     *)
(* carrying more than 10 images is rejected before any image is processed:  *)
(* the window, recognized_text, last_sign and the session_stats counters    *)
(* are unchanged.  A request with at most 10 images processes them through  *)
(* process_frame one at a time in array order: every image that decodes is  *)
(* counted and classified on the state its predecessors left, its result    *)
(* stands at its index, and an image that does not decode is reported at    *)
(* its index without touching the state.                                    *)
C33_BatchLimit ==
    [][/\ BatchStep =>
            LET images == env'.images
                total == session_stats.total_predictions
            IN  IF Len(images) > BatchLimit
                THEN /\ UNCHANGED <<prediction_history, recognized_text, last_sign,
                                    last_sign_time, session_stats, pushed>>
                     /\ ~result'.success
                     /\ "batch_results" \notin DOMAIN result'
                ELSE /\ pushed' = pushed \o ObservationsOf(images)
                     /\ session_stats'.total_predictions
                           = total + Cardinality(DecodedUpTo(images, Len(images)))
                     /\ images # <<>> =>
                          /\ result'.success
                          /\ Len(result'.batch_results) = Len(images)
                          /\ \A i \in DOMAIN images :
                                LET r == result'.batch_results[i]
                                IN  /\ r.image_index = i - 1
                                    /\ IF images[i].kind = "undecodable"
                                       THEN "error" \in DOMAIN r /\ ~r.success
                                       ELSE /\ r.session_stats.total_predictions
                                                  = total + Cardinality(DecodedUpTo(images, i))
                                            /\ r.sign = images[i].sign
       /\ \A f \in FrameInputs :
             process_frame(f) =>
                LET processed == ProcessedFrame(DetectorNow, f, confidence_threshold, now)
                IN  /\ result' = processed.result
                    /\ prediction_history' = processed.detector.prediction_history
                    /\ recognized_text' = processed.detector.recognized_text
                    /\ last_sign' = processed.detector.last_sign
                    /\ last_sign_time' = processed.detector.last_sign_time
                    /\ session_stats' = processed.detector.session_stats]_vars

\* a request of exactly 10 images, one of which does not decode, served in a
\* session with a window; a sign is committed before the last image
C33_Witness ==
    /\ call = "batch_detect"
    /\ result.success
    /\ Len(env.images) = BatchLimit
    /\ Len(pushed) > Len(ObservationsOf(env.images))
    /\ \E i \in DOMAIN result.batch_results : "error" \in DOMAIN result.batch_results[i]
    /\ \E i \in 1..(BatchLimit - 1) : "new_sign_added" \in DOMAIN result.batch_results[i]
    /\ recognized_text # <<>>

\* the samples recorded for a sign
SamplesOf(sign, data) == Cardinality({i \in DOMAIN data : data[i].sign = sign})

(* C34: data-collection quota.  In collect_samples, for every sequence of   *)
(* key events (space, n, p, q) and frames with and without a hand, the      *)
(* number of entries in collected_data for any one sign never exceeds       *)
(* samples_per_sign, and the collector advances past a sign (key 'n') only  *)
(* when at least 10 samples have been collected for it in the current       *)
(* visit.                                                                   *)
C34_CollectionQuota ==
    [][call' = "collect_samples" =>
         /\ \A i \in DOMAIN sign_labels :
               SamplesOf(sign_labels[i], collector'.collected_data) <= samples_per_sign
         /\ collector'.current_sign_idx > collector.current_sign_idx =>
               collector.samples_collected
                  + Len(collector'.collected_data) - Len(collector.collected_data)
               >= MinSamples]_vars

====
